---- MODULE Spec2Model ----
(***************************************************************************)
(* ChessBuddy analysis pipeline (cbuddy/engine_worker.py, cbuddy/api.py)   *)
(* over the relational store of alembic/versions/0001_initial.py.          *)
(*                                                                         *)
(* One imported game is analysed.  A position (FEN) is represented by the  *)
(* sequence of UCI moves that leads to it from the start position, which   *)
(* is how the importer builds fen_before / fen_after (board.push).         *)
(* Every handler runs inside one database transaction (db.get_connection)  *)
(* and is one action.  The chess engine is an external oracle: each        *)
(* evaluation may return any score, best move and depth of the sampled     *)
(* domains below.                                                          *)
(***************************************************************************)
EXTENDS Integers, Sequences, FiniteSets, TLC

VARIABLES
    thr,         \* HighlightThresholds read at process start (config.py)
    evals,       \* chessbuddy.engine_evaluations
    highlights,  \* chessbuddy.move_highlights
    tasks,       \* chessbuddy.tactics_tasks
    responses,   \* chessbuddy.tactics_responses
    pc,          \* position of analyse_game_pipeline: the step to run next
    runs,        \* number of analyse_game_pipeline calls started so far
    tx,          \* the open transaction of the running engine pass, if any
    varied,      \* engine evaluations so far that differed from the quiet result
    last         \* the last call: its arguments, locals and result

vars == <<thr, evals, highlights, tasks, responses, pc, runs, tx, varied, last>>

-----------------------------------------------------------------------------
(* Bounds of the model *)

\* calls of analyse_game_pipeline
MaxRuns == 2
\* rows of tactics_responses
MaxResponses == 2
\* engine evaluations that return something else than the quiet result
MaxVaried == 2

-----------------------------------------------------------------------------
(* Configuration: cbuddy/config.py *)

THRESH_BRILLIANT_CP == 900
THRESH_GREAT_CP == 600
THRESH_INACCURACY_CP == -400
THRESH_MISTAKE_CP == -800
THRESH_BLUNDER_CP == -1200
THRESH_NEAR_BEST_TOL_CP == 10
\* score.score(mate_score=10_000): every engine score lies in -MATE_SCORE..MATE_SCORE
MATE_SCORE == 10000

HighlightThresholds ==
    [ brilliant_cp |-> THRESH_BRILLIANT_CP,
      great_cp |-> THRESH_GREAT_CP,
      inaccuracy_cp |-> THRESH_INACCURACY_CP,
      mistake_cp |-> THRESH_MISTAKE_CP,
      blunder_cp |-> THRESH_BLUNDER_CP,
      near_best_tolerance_cp |-> THRESH_NEAR_BEST_TOL_CP ]

\* A configuration set through the THRESH_* environment variables whose bands
\* overlap: config.py converts the variables with int() and checks nothing.
OverlappingThresholds ==
    [ brilliant_cp |-> 600,
      great_cp |-> 900,
      inaccuracy_cp |-> -1200,
      mistake_cp |-> -800,
      blunder_cp |-> -400,
      near_best_tolerance_cp |-> 10 ]

ThresholdConfigs == {HighlightThresholds, OverlappingThresholds}

-----------------------------------------------------------------------------
(* Classifier: engine_worker._classify_delta *)

NoCategory == "none"

\* the same checks with the two most negative bands tested in the wrong order
ClassifyMistakeFirst(delta_cp, thresholds) ==
    IF delta_cp <= thresholds.mistake_cp THEN "mistake"
    ELSE IF delta_cp <= thresholds.blunder_cp THEN "blunder"
    ELSE IF delta_cp <= thresholds.inaccuracy_cp THEN "inaccuracy"
    ELSE IF delta_cp >= thresholds.brilliant_cp THEN "brilliant"
    ELSE IF delta_cp >= thresholds.great_cp THEN "great"
    ELSE NoCategory

_classify_delta(delta_cp, thresholds) ==
    IF delta_cp <= thresholds.blunder_cp THEN "blunder"
    ELSE IF delta_cp <= thresholds.mistake_cp THEN "mistake"
    ELSE IF delta_cp <= thresholds.inaccuracy_cp THEN "inaccuracy"
    ELSE IF delta_cp >= thresholds.brilliant_cp THEN "brilliant"
    ELSE IF delta_cp >= thresholds.great_cp THEN "great"
    ELSE NoCategory

\* every after - before of two engine scores
Deltas == (0 - 2 * MATE_SCORE) .. (2 * MATE_SCORE)

NoCall == [op |-> "none"]
NoTx == [open |-> FALSE]

EmptyStore ==
    /\ evals = {}
    /\ highlights = {}
    /\ tasks = {}
    /\ responses = <<>>
    /\ pc = "idle"
    /\ runs = 0
    /\ tx = NoTx
    /\ varied = 0
    /\ last = NoCall

InitClassify ==
    /\ thr \in ThresholdConfigs
    /\ EmptyStore

\* one call of _classify_delta per behaviour: the function keeps no state
Classify(d) ==
    /\ last' = [op |-> "classify", delta |-> d, cat |-> _classify_delta(d, thr)]
    /\ UNCHANGED <<thr, evals, highlights, tasks, responses, pc, runs, tx, varied>>

NextClassify == last.op = "none" /\ \E d \in Deltas : Classify(d)

SpecClassify == InitClassify /\ [][NextClassify]_vars

-----------------------------------------------------------------------------
(* Game store: the rows importer.import_pgn writes for one game *)

\* the main line of the imported PGN, as UCI moves: 1. e4 e5
PgnMoves == <<"e2e4", "e7e5">>
LastPly == Len(PgnMoves)

\* a FEN column that holds no position
NullFen == <<"-">>

Plies == 1 .. LastPly

\* importer.import_pgn, the loop over the main line: ply counts from 1,
\* fen_before is the board before board.push(move), fen_after the board after
Moves ==
    { [ id |-> p, game_id |-> 1, ply |-> p,
        side |-> IF p % 2 = 1 THEN "w" ELSE "b",
        uci |-> PgnMoves[p],
        fen_before |-> SubSeq(PgnMoves, 1, p - 1),
        fen_after |-> SubSeq(PgnMoves, 1, p) ] : p \in Plies }

MoveAt(p) == CHOOSE m \in Moves : m.ply = p
MoveById(i) == CHOOSE m \in Moves : m.id = i

\* move_categories as seeded by the migration; a category's key stands for its id
MoveCategories ==
    { "brilliant", "great", "best", "good", "inaccuracy", "mistake", "blunder",
      "missed_win", "missed_draw", "novelty" }

\* users.id of the accounts that call the API; the pipeline writes for user 1
Users == {1, 2}

-----------------------------------------------------------------------------
(* Engine oracle: engine_worker._eval_fen *)

\* the move the game goes on with, or a developing move off the game's line
MainMove(fen) ==
    IF Len(fen) < Len(PgnMoves) /\ fen = SubSeq(PgnMoves, 1, Len(fen))
    THEN PgnMoves[Len(fen) + 1]
    ELSE IF Len(fen) % 2 = 0 THEN "g1f3" ELSE "g8f6"

\* a second legal move of the side to move
AltMove(fen) == IF Len(fen) % 2 = 0 THEN "a2a3" ELSE "a7a6"

\* a string that is a legal move in no position
IllegalMove == "e1e8"

\* chess.Board(fen).legal_moves, cut to two moves per position
LegalMoves(fen) == {MainMove(fen), AltMove(fen)}

\* sampled engine scores (within -MATE_SCORE..MATE_SCORE) and search depths
Scores == {-1300, 0}
Depths == {1, 2}

\* _eval_fen(engine, fen, movetime_ms, multipv)[0]: the first line the engine
\* reports. Score, first PV move and depth are whatever the search returns
\* within the time budget.
_eval_fen(fen) ==
    [cp : Scores, best_uci : LegalMoves(fen), depth : Depths]

\* The answer of an engine that sees a level position at its usual depth.
\* A behaviour holds at most MaxVaried evaluations with another answer.
QuietResult(fen) ==
    [cp |-> 0, best_uci |-> MainMove(fen), depth |-> 1]

Variation(fen, res) == IF res = QuietResult(fen) THEN 0 ELSE 1

\* Where the caller reads the score of an evaluation alone, one result per
\* score stands for all that carry it; likewise for score and first move.
ScoreResults(fen) ==
    { [QuietResult(fen) EXCEPT !.cp = r.cp] : r \in _eval_fen(fen) }

ScoreMoveResults(fen) ==
    { [r EXCEPT !.depth = QuietResult(fen).depth] : r \in _eval_fen(fen) }

-----------------------------------------------------------------------------
(* Store primitives *)

Max(S) == CHOOSE x \in S : \A y \in S : y <= x

\* bigserial primary key: a fresh id above every id of the table
NextId(rows) == IF rows = {} THEN 1 ELSE Max({r.id : r \in rows}) + 1

RECURSIVE Perms(_)
\* every order in which the rows of a result set may be returned
Perms(S) ==
    IF S = {} THEN {<<>>}
    ELSE UNION { { <<x>> \o s : s \in Perms(S \ {x}) } : x \in S }

RECURSIVE PlyOrdersFrom(_, _)
PlyOrdersFrom(S, p) ==
    IF p > LastPly THEN {<<>>}
    ELSE { a \o b : a \in Perms({r \in S : r.ply = p}),
                    b \in PlyOrdersFrom(S, p + 1) }

\* "order by ply": rows of equal ply come in any order
PlyOrders(S) == PlyOrdersFrom(S, 1)

EvalRow(m, res) ==
    [ game_id |-> m.game_id, move_id |-> m.id, ply |-> m.ply,
      eval_side |-> IF m.ply % 2 = 1 THEN "w" ELSE "b",
      score_cp |-> res.cp, best_move_uci |-> res.best_uci,
      score_mate |-> "null",
      depth |-> res.depth, engine_name |-> "stockfish" ]

\* board.turn of chess.Board(fen): white moves in the start position
SideToMove(fen) == IF Len(fen) % 2 = 0 THEN "w" ELSE "b"

\* The position a row was evaluated for: the table has no column for it, but
\* the first move of the engine's line is a move of the side to move, legal
\* before the row's move or after it and never both.
EvaluatedFen(e) ==
    IF e.best_move_uci \in LegalMoves(MoveById(e.move_id).fen_before)
    THEN MoveById(e.move_id).fen_before
    ELSE MoveById(e.move_id).fen_after

\* score.pov(board.turn) is the score as the side to move in the evaluated
\* position sees it; seen by the mover of the row's move it is the same
\* number where the mover is to move and its negation where the opponent is
MoverScore(e) ==
    IF SideToMove(EvaluatedFen(e)) = MoveById(e.move_id).side
    THEN e.score_cp
    ELSE 0 - e.score_cp

\* A score of pov(board.turn) for the position fen, as the given side sees it
ScoreFor(side, fen, cp) == IF SideToMove(fen) = side THEN cp ELSE 0 - cp

\* insert without the conflict clause's check
InsertEvaluationAlways(es, row) == es \cup {row}

\* insert ... on conflict do update: the new row takes the place of the old
InsertEvaluationUpsert(es, row) ==
    { e \in es : ~ ( /\ e.move_id = row.move_id
                     /\ e.engine_name = row.engine_name
                     /\ e.depth = row.depth ) } \cup {row}

\* insert into engine_evaluations ... on conflict do nothing,
\* under unique (move_id, engine_name, depth)
InsertEvaluation(es, row) ==
    IF \E e \in es : /\ e.move_id = row.move_id
                     /\ e.engine_name = row.engine_name
                     /\ e.depth = row.depth
    THEN es
    ELSE es \cup {row}

\* insert that skips the conflict check
InsertHighlightAlways(hs, row) == hs \cup {[row EXCEPT !.id = NextId(hs)]}

\* insert into move_highlights ... on conflict do nothing,
\* under unique (move_id, category_id)
InsertHighlight(hs, row) ==
    IF \E h \in hs : h.move_id = row.move_id /\ h.category_id = row.category_id
    THEN hs
    ELSE hs \cup {[row EXCEPT !.id = NextId(hs)]}

SameTaskIdentity(t, row) ==
    /\ t.user_id = row.user_id
    /\ t.game_id = row.game_id
    /\ t.position_ply = row.position_ply
    /\ t.category_id = row.category_id

\* insert that skips the conflict check
InsertTaskAlways(ts, row) == ts \cup {[row EXCEPT !.id = NextId(ts)]}

\* insert into tactics_tasks ... on conflict do nothing, under the unique index
\* uidx_tasks_identity (user_id, game_id, position_ply, coalesce(category_id, 0))
InsertTask(ts, row) ==
    IF \E t \in ts : SameTaskIdentity(t, row)
    THEN ts
    ELSE ts \cup {[row EXCEPT !.id = NextId(ts)]}

TaskRow(uid, gid, mid, hid, pply, fen) ==
    [ id |-> 0, user_id |-> uid, game_id |-> gid, move_id |-> mid,
      source_highlight_id |-> hid, position_ply |-> pply, fen |-> fen,
      category_id |-> "blunder", status |-> "new" ]

-----------------------------------------------------------------------------
(* Fast pass: engine_worker.analyse_game_fast *)

\* What is known of a call of analyse_game_pipeline: how it ended or that it
\* runs, the step it is in or ended in, and the engine subprocess of that step
\* ("not started", "running", or "terminated" by SimpleEngine.__exit__).
PipelineCall(outcome, step, engine) ==
    [ op |-> "analyse_game_pipeline", outcome |-> outcome, step |-> step,
      engine |-> engine ]

\* the evaluations of the loop, in order: before and after of each move by ply
FastCalls ==
    [ i \in 1 .. 2 * LastPly |->
        [ ply |-> (i + 1) \div 2,
          key |-> IF i % 2 = 1 THEN "before" ELSE "after" ] ]

CallFen(c) ==
    IF c.key = "before" THEN MoveAt(c.ply).fen_before ELSE MoveAt(c.ply).fen_after

\* analyse_game_pipeline is called: the fast pass opens the engine and the
\* transaction and reads the moves
BeginFast ==
    /\ pc = "idle"
    /\ runs < MaxRuns
    /\ runs' = runs + 1
    /\ pc' = "fast"
    /\ tx' = [ open |-> TRUE, todo |-> FastCalls, evals |-> evals,
               highlights |-> highlights, keys |-> {} ]
    /\ last' = PipelineCall("running", "fast", "running")
    /\ UNCHANGED <<thr, evals, highlights, tasks, responses, varied>>

\* _open_engine raises: get_engine_path finds no binary or popen_uci cannot
\* start it, and no process exists; or eng.configure rejects Threads or Hash,
\* and the process popen_uci started is returned to nobody and closed by nobody
FastEngineUnavailable ==
    /\ pc = "idle"
    /\ runs < MaxRuns
    /\ runs' = runs + 1
    /\ \E engine \in {"not started", "running"} :
         last' = PipelineCall("engine_error", "fast", engine)
    /\ UNCHANGED <<thr, evals, highlights, tasks, responses, pc, tx, varied>>

\* one iteration of the loop: evaluate the position, insert the row
FastEval ==
    /\ pc = "fast"
    /\ tx.todo # <<>>
    /\ LET c == Head(tx.todo)
           m == MoveAt(c.ply)
       IN  IF CallFen(c) = NullFen
           THEN /\ tx' = [tx EXCEPT !.todo = Tail(tx.todo)]
                /\ UNCHANGED <<evals, varied>>
           ELSE \E res \in _eval_fen(CallFen(c)) :
                  /\ varied + Variation(CallFen(c), res) <= MaxVaried
                  /\ varied' = varied + Variation(CallFen(c), res)
                  /\ evals' = InsertEvaluation(evals, EvalRow(m, res))
                  /\ tx' = [tx EXCEPT !.todo = Tail(tx.todo),
                                      !.keys = @ \cup {<<m.id, res.depth>>}]
    /\ UNCHANGED <<thr, highlights, tasks, responses, pc, runs, last>>

\* the engine fails during an evaluation: the exception leaves both context
\* managers, the transaction is rolled back and the pipeline call ends
FastFail ==
    /\ pc = "fast"
    /\ tx.todo # <<>>
    /\ evals' = tx.evals
    /\ pc' = "idle"
    /\ tx' = NoTx
    /\ last' = PipelineCall("engine_error", "fast", "terminated")
    /\ UNCHANGED <<thr, highlights, tasks, responses, runs, varied>>

\* the loop is over: the transaction commits, the engine is closed
FastCommit ==
    /\ pc = "fast"
    /\ tx.todo = <<>>
    /\ pc' = "annotate"
    /\ tx' = NoTx
    /\ last' = PipelineCall("running", "annotate", "terminated")
    /\ UNCHANGED <<thr, evals, highlights, tasks, responses, runs, varied>>

-----------------------------------------------------------------------------
(* Highlight annotation: engine_worker.annotate_highlights *)

\* the query of annotate_highlights over one order of the joined rows:
\* lag(score_cp) is the score of the row before, and the first row, whose
\* before_cp is null, is left out
WindowRows(w) ==
    { [ move_id |-> w[i].move_id, ply |-> w[i].ply,
        before_cp |-> w[i - 1].score_cp, after_cp |-> w[i].score_cp,
        delta |-> w[i].score_cp - w[i - 1].score_cp ] : i \in 2 .. Len(w) }

HighlightRow(r, cat) ==
    [ id |-> 0, game_id |-> 1, move_id |-> r.move_id, category_id |-> cat,
      ply |-> r.ply, eval_before_cp |-> r.before_cp,
      eval_after_cp |-> r.after_cp, eval_delta_cp |-> r.delta ]

RECURSIVE AnnotateLoop(_, _, _)
\* for r in rows: classify, look the category up, insert
AnnotateLoop(hs, rows, thresholds) ==
    IF rows = <<>> THEN hs
    ELSE LET r == Head(rows)
             cat_key == _classify_delta(r.delta, thresholds)
         IN  IF cat_key = NoCategory \/ cat_key \notin MoveCategories
             THEN AnnotateLoop(hs, Tail(rows), thresholds)
             ELSE AnnotateLoop(InsertHighlight(hs, HighlightRow(r, cat_key)),
                               Tail(rows), thresholds)

AnnotateHighlights ==
    /\ pc = "annotate"
    /\ \E w \in PlyOrders(evals) :
         \E rows \in PlyOrders(WindowRows(w)) :
            highlights' = AnnotateLoop(highlights, rows, thr)
    /\ pc' = "deep_open"
    /\ UNCHANGED <<thr, evals, tasks, responses, runs, tx, varied, last>>

-----------------------------------------------------------------------------
(* Deep pass: engine_worker.deep_refine_candidates *)

BeginDeep ==
    /\ pc = "deep_open"
    /\ pc' = "deep"
    /\ tx' = [ open |-> TRUE, todo |-> {h.id : h \in highlights},
               evals |-> evals, highlights |-> highlights, keys |-> {} ]
    /\ last' = PipelineCall("running", "deep", "running")
    /\ UNCHANGED <<thr, evals, highlights, tasks, responses, runs, varied>>

DeepEngineUnavailable ==
    /\ pc = "deep_open"
    /\ pc' = "idle"
    /\ \E engine \in {"not started", "running"} :
         last' = PipelineCall("engine_error", "deep", engine)
    /\ UNCHANGED <<thr, evals, highlights, tasks, responses, runs, tx, varied>>

\* a refinement that also files the highlight under the category of the new delta
RefineAndReclassify(h, before, after, thresholds) ==
    [h EXCEPT !.eval_before_cp = before.cp, !.eval_after_cp = after.cp,
              !.eval_delta_cp = after.cp - before.cp,
              !.category_id =
                  IF _classify_delta(after.cp - before.cp, thresholds) = NoCategory
                  THEN @ ELSE _classify_delta(after.cp - before.cp, thresholds)]

\* an update of the two scores that leaves the stored delta as it was
RefineScoresOnly(h, before, after, thresholds) ==
    [h EXCEPT !.eval_before_cp = before.cp, !.eval_after_cp = after.cp]

\* update move_highlights set eval_before_cp, eval_after_cp, eval_delta_cp
\* where id = :hid
RefineHighlight(h, before, after, thresholds) ==
    [h EXCEPT !.eval_before_cp = before.cp, !.eval_after_cp = after.cp,
              !.eval_delta_cp = after.cp - before.cp]

\* one iteration over the candidates, which the query returns in any order
DeepEval ==
    /\ pc = "deep"
    /\ \E hid \in tx.todo :
         LET c == CHOOSE h \in highlights : h.id = hid
             m == MoveById(c.move_id)
         IN  IF m.fen_before = NullFen \/ m.fen_after = NullFen
             THEN /\ tx' = [tx EXCEPT !.todo = @ \ {hid}]
                  /\ UNCHANGED <<evals, highlights, varied>>
             ELSE \E before \in ScoreResults(m.fen_before),
                     after \in _eval_fen(m.fen_after) :
                    /\ varied + Variation(m.fen_before, before)
                              + Variation(m.fen_after, after) <= MaxVaried
                    /\ varied' = varied + Variation(m.fen_before, before)
                                        + Variation(m.fen_after, after)
                    /\ highlights' = (highlights \ {c})
                                       \cup {RefineHighlight(c, before, after, thr)}
                    /\ evals' = InsertEvaluation(evals, EvalRow(m, after))
                    /\ tx' = [tx EXCEPT !.todo = @ \ {hid}]
    /\ UNCHANGED <<thr, tasks, responses, pc, runs, last>>

\* a failure that is swallowed: the pipeline goes on to the task generation
DeepFailContinues ==
    /\ pc = "deep"
    /\ tx.todo # {}
    /\ evals' = tx.evals
    /\ highlights' = tx.highlights
    /\ pc' = "tasks"
    /\ tx' = NoTx
    /\ last' = PipelineCall("engine_error", "deep", "terminated")
    /\ UNCHANGED <<thr, tasks, responses, runs, varied>>

\* a failure after which the writes made so far are committed
DeepFailKeepsPartial ==
    /\ pc = "deep"
    /\ tx.todo # {}
    /\ pc' = "idle"
    /\ tx' = NoTx
    /\ last' = PipelineCall("engine_error", "deep", "terminated")
    /\ UNCHANGED <<thr, evals, highlights, tasks, responses, runs, varied>>

\* the engine fails during an evaluation: the exception leaves both context
\* managers, the transaction is rolled back and the pipeline call ends
DeepFail ==
    /\ pc = "deep"
    /\ tx.todo # {}
    /\ evals' = tx.evals
    /\ highlights' = tx.highlights
    /\ pc' = "idle"
    /\ tx' = NoTx
    /\ last' = PipelineCall("engine_error", "deep", "terminated")
    /\ UNCHANGED <<thr, tasks, responses, runs, varied>>

DeepCommit ==
    /\ pc = "deep"
    /\ tx.todo = {}
    /\ pc' = "tasks"
    /\ tx' = NoTx
    /\ last' = PipelineCall("running", "tasks", "terminated")
    /\ UNCHANGED <<thr, evals, highlights, tasks, responses, runs, varied>>

-----------------------------------------------------------------------------
(* Task generation: engine_worker.create_tasks_from_blunders *)

\* highlights joined to the blunder category and to their move
BlunderHighlights(hs) == {h \in hs : h.category_id = "blunder"}

\* the loop's guard without the test of the ply
SolvableAnyPly(fen_before, ply) == fen_before # NullFen

\* not (not fen_before or ply <= 1)
Solvable(fen_before, ply) == fen_before # NullFen /\ ply > 1

RECURSIVE BlunderLoop(_, _)
BlunderLoop(ts, bs) ==
    IF bs = <<>> THEN ts
    ELSE LET b == Head(bs)
             m == MoveById(b.move_id)
         IN  IF ~Solvable(m.fen_before, b.ply)
             THEN BlunderLoop(ts, Tail(bs))
             ELSE BlunderLoop(
                    InsertTask(ts, TaskRow(1, b.game_id, m.id, b.id,
                                           b.ply - 1, m.fen_before)),
                    Tail(bs))

CreateTasksFromBlunders ==
    /\ pc = "tasks"
    /\ \E bs \in Perms(BlunderHighlights(highlights)) :
         tasks' = BlunderLoop(tasks, bs)
    /\ pc' = "idle"
    /\ last' = PipelineCall("ok", "tasks", "terminated")
    /\ UNCHANGED <<thr, evals, highlights, responses, runs, tx, varied>>

-----------------------------------------------------------------------------
(* Task creation through the API: api.create_task_from_highlight, api.random_task *)

\* "order by id desc limit 1" over the tasks of the user at the position
ExistingTaskId(ts, uid, gid, pply) ==
    Max({ t.id : t \in { x \in ts : /\ x.user_id = uid
                                    /\ x.game_id = gid
                                    /\ x.position_ply = pply } })

\* the task built with the board before the move at position_ply
TaskFromHighlightEarlierFen(op, h, uid) ==
    LET m == MoveById(h.move_id)
        row == TaskRow(uid, h.game_id, m.id, h.id, h.ply - 1,
                       MoveAt(h.ply - 1).fen_before)
        after == InsertTask(tasks, row)
    IN  /\ tasks' = after
        /\ last' = IF after # tasks
                   THEN [ op |-> op, highlight_id |-> h.id, user_id |-> uid,
                          http |-> 200, created |-> TRUE,
                          task_id |-> Max({t.id : t \in after}) ]
                   ELSE [ op |-> op, highlight_id |-> h.id, user_id |-> uid,
                          http |-> 200, created |-> FALSE,
                          task_id |-> ExistingTaskId(tasks, uid, h.game_id, h.ply - 1) ]

\* the insert ... returning id and the lookup that follows a conflict
TaskFromHighlight(op, h, uid) ==
    LET m == MoveById(h.move_id)
        row == TaskRow(uid, h.game_id, m.id, h.id, h.ply - 1, m.fen_before)
        after == InsertTask(tasks, row)
    IN  /\ tasks' = after
        /\ last' = IF after # tasks
                   THEN [ op |-> op, highlight_id |-> h.id, user_id |-> uid,
                          http |-> 200, created |-> TRUE,
                          task_id |-> Max({t.id : t \in after}) ]
                   ELSE [ op |-> op, highlight_id |-> h.id, user_id |-> uid,
                          http |-> 200, created |-> FALSE,
                          task_id |-> ExistingTaskId(tasks, uid, h.game_id, h.ply - 1) ]

NotSolvable(op, hid, uid) ==
    /\ last' = [ op |-> op, highlight_id |-> hid, user_id |-> uid,
                 http |-> 404, created |-> FALSE, task_id |-> 0 ]
    /\ UNCHANGED tasks

\* ids a caller may pass: those of the table and one beyond
HighlightIds == 1 .. (Cardinality(highlights) + 1)

CreateTaskFromHighlight(hid, uid) ==
    /\ pc = "idle"
    /\ IF \E h \in highlights :
            h.id = hid /\ Solvable(MoveById(h.move_id).fen_before, h.ply)
       THEN TaskFromHighlight("create_task_from_highlight",
                              CHOOSE h \in highlights : h.id = hid, uid)
       ELSE NotSolvable("create_task_from_highlight", hid, uid)
    /\ UNCHANGED <<thr, evals, highlights, responses, pc, runs, tx, varied>>

\* random.randint(lo, hi) and "highlight_id >= :sid order by highlight_id limit 1":
\* any highlight matching the filter may be chosen
RandomTask(uid, category) ==
    /\ pc = "idle"
    /\ LET matching == { h \in highlights :
                           category = NoCategory \/ h.category_id = category }
       IN  IF matching = {}
           THEN NotSolvable("random_task", 0, uid)
           ELSE \E chosen \in matching :
                  IF Solvable(MoveAt(chosen.ply).fen_before, chosen.ply)
                  THEN TaskFromHighlight("random_task", chosen, uid)
                  ELSE NotSolvable("random_task", chosen.id, uid)
    /\ UNCHANGED <<thr, evals, highlights, responses, pc, runs, tx, varied>>

-----------------------------------------------------------------------------
(* The analysis service: one game, pipeline calls and task requests *)

Init ==
    /\ thr = HighlightThresholds
    /\ EmptyStore

Next ==
    \/ BeginFast
    \/ FastEngineUnavailable
    \/ FastEval
    \/ FastFail
    \/ FastCommit
    \/ AnnotateHighlights
    \/ BeginDeep
    \/ DeepEngineUnavailable
    \/ DeepEval
    \/ DeepFail
    \/ DeepCommit
    \/ CreateTasksFromBlunders

Spec == Init /\ [][Next]_vars

\* The service with the task requests of the API.  A request is its own
\* transaction; one that arrives between two steps of a pipeline call reads and
\* writes nothing the engine passes touch, so it is taken before or after the call.
NextTasks ==
    \/ Next
    \/ \E uid \in Users : \E hid \in HighlightIds : CreateTaskFromHighlight(hid, uid)
    \/ \E uid \in Users : \E category \in {NoCategory, "blunder", "brilliant"} :
          RandomTask(uid, category)

SpecTasks == Init /\ [][NextTasks]_vars

-----------------------------------------------------------------------------
(* Answer verification: engine_worker.verify_task_answer behind api.verify_task *)

\* board.push_uci(move); board.fen()
PushUci(fen, move) == Append(fen, move)

\* a rule that accepts the engine's first choice alone
IsCorrectExactOnly(proposed, best_uci, delta, tolerance) == proposed = best_uci

\* is_correct = (proposed_move_uci == best.best_uci) or (delta <= near_best_tolerance_cp)
IsCorrect(proposed, best_uci, delta, tolerance) ==
    proposed = best_uci \/ delta <= tolerance

\* an insert that keeps one response per task, replacing the one before
InsertResponseReplacing(rs, row) ==
    IF \E i \in 1 .. Len(rs) : rs[i].task_id = row.task_id
    THEN [ i \in 1 .. Len(rs) |->
             IF rs[i].task_id = row.task_id THEN [row EXCEPT !.id = rs[i].id]
             ELSE rs[i] ]
    ELSE Append(rs, [row EXCEPT !.id = Len(rs) + 1])

\* insert into tactics_responses ... returning id: the table has no unique
\* constraint beside its key, every insert adds a row
InsertResponse(rs, row) == Append(rs, [row EXCEPT !.id = Len(rs) + 1])

\* update tactics_tasks set status='answered', answered_at=now() where id=:tid
MarkAnswered(ts, tid) ==
    { IF t.id = tid THEN [t EXCEPT !.status = "answered"] ELSE t : t \in ts }

\* what the caller of POST /tasks/{task_id}/verify gets back
VerifyOutcome(tid, http, error, raised) ==
    [ op |-> "verify_task_answer", task_id |-> tid, http |-> http,
      error |-> error, raised |-> raised,
      engine |-> IF raised = "FileNotFoundError" THEN "not started"
                 ELSE IF raised = "EngineError" THEN "running"
                 ELSE "terminated" ]

VerifyResult(tid, move, rid, ok, best, after) ==
    [ op |-> "verify_task_answer", task_id |-> tid, http |-> 200,
      error |-> "none", raised |-> "none", engine |-> "terminated",
      move_uci |-> move,
      response_id |-> rid, is_correct |-> ok, score_cp_delta |-> best.cp - after.cp,
      engine_best_move_uci |-> best.best_uci, engine_after_cp |-> after.cp,
      engine_best_cp |-> best.cp ]

\* ids a caller may pass: those of the table and one beyond
TaskIds == 1 .. (Cardinality(tasks) + 1)

\* moves a caller may propose: the legal moves of the positions the tasks
\* show, and a string that is no legal move
ProposedMoves == UNION {LegalMoves(m.fen_before) : m \in Moves} \cup {IllegalMove}

VerifyTaskAnswer(tid, move, uid) ==
    /\ pc = "idle"
    /\ \/ \* _open_engine raises before the task is looked up: the exception is
          \* no ValueError and the API answers 500
          /\ \E raised \in {"FileNotFoundError", "EngineError"} :
               last' = VerifyOutcome(tid, 500, "Internal Server Error", raised)
          /\ UNCHANGED <<tasks, responses, varied>>
       \/ \* raise ValueError("task not found") -> HTTPException(404)
          /\ ~ \E t \in tasks : t.id = tid
          /\ last' = VerifyOutcome(tid, 404, "task not found", "ValueError")
          /\ UNCHANGED <<tasks, responses, varied>>
       \/ \* the engine process fails during one of the two evaluations
          /\ \E t \in tasks : t.id = tid
          /\ last' = VerifyOutcome(tid, 500, "Internal Server Error", "EngineTerminatedError")
          /\ UNCHANGED <<tasks, responses, varied>>
       \/ \* board.push_uci raises a ValueError on a move that is not legal
          \* in the position; api.verify_task reports every ValueError alike
          /\ \E t \in tasks : t.id = tid /\ move \notin LegalMoves(t.fen)
          /\ last' = VerifyOutcome(tid, 404, "task not found", "IllegalMoveError")
          /\ UNCHANGED <<tasks, responses, varied>>
       \/ /\ Len(responses) < MaxResponses
          /\ \E t \in tasks :
               /\ t.id = tid
               /\ move \in LegalMoves(t.fen)
               /\ \E best \in ScoreMoveResults(t.fen),
                     after \in ScoreResults(PushUci(t.fen, move)) :
                    LET n == Variation(t.fen, best)
                               + Variation(PushUci(t.fen, move), after)
                        ok == IsCorrect(move, best.best_uci, best.cp - after.cp,
                                        thr.near_best_tolerance_cp)
                        row == [ id |-> 0, task_id |-> tid, user_id |-> uid,
                                 proposed_move_uci |-> move, is_correct |-> ok,
                                 score_cp_delta |-> best.cp - after.cp,
                                 engine_eval_after_cp |-> after.cp,
                                 engine_best_move_uci |-> best.best_uci ]
                    IN  /\ varied + n <= MaxVaried
                        /\ varied' = varied + n
                        /\ responses' = InsertResponse(responses, row)
                        /\ tasks' = MarkAnswered(tasks, tid)
                        /\ last' = VerifyResult(tid, move, Len(responses) + 1,
                                                ok, best, after)
    /\ UNCHANGED <<thr, evals, highlights, pc, runs, tx>>

\* An administrator closes a task that waits for its answer: the check
\* constraint of tactics_tasks.status admits 'expired' and 'cancelled', which
\* no code of the service writes.
AdminSetStatus(tid, status) ==
    /\ \E t \in tasks : t.id = tid /\ t.status = "new"
    /\ tasks' = { IF t.id = tid THEN [t EXCEPT !.status = status] ELSE t : t \in tasks }
    /\ UNCHANGED <<thr, evals, highlights, responses, pc, runs, tx, varied, last>>

\* The store after one pipeline call that flagged the second move as a blunder
\* and refined it, with the task of user 1 and a task user 2 asked for.
VerifyEvals ==
    { EvalRow(MoveAt(1), QuietResult(MoveAt(1).fen_before)),
      EvalRow(MoveAt(2), [QuietResult(MoveAt(2).fen_before) EXCEPT !.cp = -1300]) }

VerifyHighlights ==
    { [ id |-> 1, game_id |-> 1, move_id |-> 2, category_id |-> "blunder",
        ply |-> 2, eval_before_cp |-> 0, eval_after_cp |-> 0,
        eval_delta_cp |-> 0 ] }

VerifyTasks ==
    { [ TaskRow(u, 1, 2, 1, 1, MoveAt(2).fen_before) EXCEPT !.id = u ] : u \in Users }

InitVerify ==
    /\ thr = HighlightThresholds
    /\ evals = VerifyEvals
    /\ highlights = VerifyHighlights
    /\ tasks = VerifyTasks
    /\ responses = <<>>
    /\ pc = "idle"
    /\ runs = 1
    /\ tx = NoTx
    /\ varied = 1
    /\ last = [ op |-> "create_task_from_highlight", highlight_id |-> 1,
                user_id |-> 2, http |-> 200, created |-> TRUE, task_id |-> 2 ]

NextVerify ==
    \/ \E tid \in TaskIds : \E move \in ProposedMoves : \E uid \in Users :
          VerifyTaskAnswer(tid, move, uid)
    \/ \E tid \in TaskIds : \E status \in {"expired", "cancelled"} :
          AdminSetStatus(tid, status)

SpecVerify == InitVerify /\ [][NextVerify]_vars

-----------------------------------------------------------------------------
(* Two analyse_game_pipeline calls on the same game at the same time.       *)
(* Here pc, tx and last hold one value per call.  A step of a call is a     *)
(* transaction of its own connection (READ COMMITTED): it reads the         *)
(* committed rows and its own writes, its inserts and updates stay pending  *)
(* in tx until the commit, and a statement that meets a row another open    *)
(* transaction has inserted or updated waits until that transaction ends.   *)

Invocations == {1, 2}

EvalKey(e) == <<e.move_id, e.engine_name, e.depth>>

\* rows and row locks an open transaction of another call holds
HeldEvalKeys(i) ==
    UNION { IF tx[j].open THEN {EvalKey(e) : e \in tx[j].ins} ELSE {}
            : j \in Invocations \ {i} }

HeldHighlightIds(i) ==
    UNION { IF tx[j].open THEN {h.id : h \in tx[j].upd} ELSE {}
            : j \in Invocations \ {i} }

\* the insert of the engine passes, as the transaction of call i sees the table
ParInsertEvaluation(i, row) ==
    InsertEvaluation(evals \cup tx[i].ins, row) \ evals

ParBeginFast(i) ==
    /\ pc[i] = "idle"
    /\ runs' = runs + 1
    /\ pc' = [pc EXCEPT ![i] = "fast"]
    /\ tx' = [tx EXCEPT ![i] = [ open |-> TRUE, todo |-> FastCalls,
                                 ins |-> {}, upd |-> {} ]]
    /\ last' = [last EXCEPT ![i] = PipelineCall("running", "fast", "running")]
    /\ UNCHANGED <<thr, evals, highlights, tasks, responses, varied>>

\* one iteration of the fast pass; it waits while another open transaction
\* holds the key it inserts
ParFastEval(i) ==
    /\ pc[i] = "fast"
    /\ tx[i].todo # <<>>
    /\ LET c == Head(tx[i].todo)
           m == MoveAt(c.ply)
       IN  \E res \in _eval_fen(CallFen(c)) :
              /\ varied + Variation(CallFen(c), res) <= MaxVaried
              /\ EvalKey(EvalRow(m, res)) \notin HeldEvalKeys(i)
              /\ varied' = varied + Variation(CallFen(c), res)
              /\ tx' = [tx EXCEPT ![i].todo = Tail(@),
                                  ![i].ins = ParInsertEvaluation(i, EvalRow(m, res))]
    /\ UNCHANGED <<thr, evals, highlights, tasks, responses, pc, runs, last>>

\* An engine pass ends by an exception: the engine fails, or PostgreSQL ends
\* a circular wait of the two transactions by aborting this one.  The
\* transaction is rolled back and the call is over.
ParFastFail(i) ==
    /\ pc[i] = "fast"
    /\ tx[i].todo # <<>>
    /\ pc' = [pc EXCEPT ![i] = "failed"]
    /\ tx' = [tx EXCEPT ![i] = NoTx]
    /\ last' = [last EXCEPT ![i] = PipelineCall("engine_error", "fast", "terminated")]
    /\ UNCHANGED <<thr, evals, highlights, tasks, responses, runs, varied>>

ParFastCommit(i) ==
    /\ pc[i] = "fast"
    /\ tx[i].todo = <<>>
    /\ evals' = evals \cup tx[i].ins
    /\ pc' = [pc EXCEPT ![i] = "annotate"]
    /\ tx' = [tx EXCEPT ![i] = NoTx]
    /\ last' = [last EXCEPT ![i] = PipelineCall("running", "annotate", "terminated")]
    /\ UNCHANGED <<thr, highlights, tasks, responses, runs, varied>>

\* annotate_highlights makes no engine call: its statements run back to back
ParAnnotateHighlights(i) ==
    /\ pc[i] = "annotate"
    /\ \E w \in PlyOrders(evals) :
         \E rows \in PlyOrders(WindowRows(w)) :
            highlights' = AnnotateLoop(highlights, rows, thr)
    /\ pc' = [pc EXCEPT ![i] = "deep_open"]
    /\ UNCHANGED <<thr, evals, tasks, responses, runs, tx, varied, last>>

ParBeginDeep(i) ==
    /\ pc[i] = "deep_open"
    /\ pc' = [pc EXCEPT ![i] = "deep"]
    /\ tx' = [tx EXCEPT ![i] = [ open |-> TRUE, todo |-> {h.id : h \in highlights},
                                 ins |-> {}, upd |-> {} ]]
    /\ last' = [last EXCEPT ![i] = PipelineCall("running", "deep", "running")]
    /\ UNCHANGED <<thr, evals, highlights, tasks, responses, runs, varied>>

\* one iteration of the deep pass: the update takes the lock of the highlight
\* row, the insert the key of the evaluation
ParDeepEval(i) ==
    /\ pc[i] = "deep"
    /\ \E hid \in tx[i].todo :
         LET c == CHOOSE h \in highlights : h.id = hid
             m == MoveById(c.move_id)
         IN  \E before \in ScoreResults(m.fen_before),
                after \in _eval_fen(m.fen_after) :
                /\ varied + Variation(m.fen_before, before)
                          + Variation(m.fen_after, after) <= MaxVaried
                /\ hid \notin HeldHighlightIds(i)
                /\ EvalKey(EvalRow(m, after)) \notin HeldEvalKeys(i)
                /\ varied' = varied + Variation(m.fen_before, before)
                                    + Variation(m.fen_after, after)
                /\ tx' = [tx EXCEPT
                            ![i].todo = @ \ {hid},
                            ![i].upd = @ \cup {RefineHighlight(c, before, after, thr)},
                            ![i].ins = ParInsertEvaluation(i, EvalRow(m, after))]
    /\ UNCHANGED <<thr, evals, highlights, tasks, responses, pc, runs, last>>

ParDeepFail(i) ==
    /\ pc[i] = "deep"
    /\ tx[i].todo # {}
    /\ pc' = [pc EXCEPT ![i] = "failed"]
    /\ tx' = [tx EXCEPT ![i] = NoTx]
    /\ last' = [last EXCEPT ![i] = PipelineCall("engine_error", "deep", "terminated")]
    /\ UNCHANGED <<thr, evals, highlights, tasks, responses, runs, varied>>

ParDeepCommit(i) ==
    /\ pc[i] = "deep"
    /\ tx[i].todo = {}
    /\ evals' = evals \cup tx[i].ins
    /\ highlights' = { h \in highlights : h.id \notin {u.id : u \in tx[i].upd} }
                       \cup tx[i].upd
    /\ pc' = [pc EXCEPT ![i] = "tasks"]
    /\ tx' = [tx EXCEPT ![i] = NoTx]
    /\ last' = [last EXCEPT ![i] = PipelineCall("running", "tasks", "terminated")]
    /\ UNCHANGED <<thr, tasks, responses, runs, varied>>

ParCreateTasksFromBlunders(i) ==
    /\ pc[i] = "tasks"
    /\ \E bs \in Perms(BlunderHighlights(highlights)) :
         tasks' = BlunderLoop(tasks, bs)
    /\ pc' = [pc EXCEPT ![i] = "done"]
    /\ last' = [last EXCEPT ![i] = PipelineCall("ok", "tasks", "terminated")]
    /\ UNCHANGED <<thr, evals, highlights, responses, runs, tx, varied>>

InitPar ==
    /\ thr = HighlightThresholds
    /\ evals = {}
    /\ highlights = {}
    /\ tasks = {}
    /\ responses = <<>>
    /\ pc = [i \in Invocations |-> "idle"]
    /\ runs = 0
    /\ tx = [i \in Invocations |-> NoTx]
    /\ varied = 0
    /\ last = [i \in Invocations |-> NoCall]

NextPar ==
    \E i \in Invocations :
        \/ ParBeginFast(i)
        \/ ParFastEval(i)
        \/ ParFastFail(i)
        \/ ParFastCommit(i)
        \/ ParAnnotateHighlights(i)
        \/ ParBeginDeep(i)
        \/ ParDeepEval(i)
        \/ ParDeepFail(i)
        \/ ParDeepCommit(i)
        \/ ParCreateTasksFromBlunders(i)

SpecPar == InitPar /\ [][NextPar]_vars

-----------------------------------------------------------------------------
(* The score of an evaluation: engine_worker._eval_fen, lines 55-56 *)

MaxMate == 20

\* li["score"].pov(board.turn): centipawns, or a mate distance in moves, as
\* the side to move sees it (Mate(n) with n > 0: the side to move mates in n;
\* n <= 0: it is mated in -n, Mate(0) on the board of a checkmate).  The
\* centipawn scores are sampled over the range the engine reports below its
\* mate scores.
RawScores ==
    [kind : {"cp"}, v : {100 * c : c \in -40 .. 40} \cup {-9999, 9999}]
      \cup [kind : {"mate"}, v : (0 - MaxMate) .. MaxMate]

\* a fold that forgets the sign of the mate distance
ScoreMateSignLost(raw, mate_score) ==
    IF raw.kind = "cp" THEN raw.v ELSE mate_score - raw.v

\* score.score(mate_score=10_000)
Score(raw, mate_score) ==
    IF raw.kind = "cp" THEN raw.v
    ELSE IF raw.v > 0 THEN mate_score - raw.v
    ELSE (0 - mate_score) - raw.v

\* the fast pass evaluates the position before the first move and stores the row
EvalAndStore(raw) ==
    /\ last = NoCall
    /\ LET res == [QuietResult(MoveAt(1).fen_before)
                     EXCEPT !.cp = Score(raw, MATE_SCORE)]
       IN  /\ evals' = InsertEvaluation(evals, EvalRow(MoveAt(1), res))
           /\ last' = [op |-> "_eval_fen", raw |-> raw, cp |-> res.cp]
    /\ UNCHANGED <<thr, highlights, tasks, responses, pc, runs, tx, varied>>

InitScore ==
    /\ thr = HighlightThresholds
    /\ EmptyStore

NextScore == \E raw \in RawScores : EvalAndStore(raw)

SpecScore == InitScore /\ [][NextScore]_vars

-----------------------------------------------------------------------------
(* Engine discovery: engine_worker.get_engine_path.  Here tx holds what the *)
(* call finds around it: cfg.engine.engine_path, the answer of              *)
(* shutil.which("stockfish") and the paths that exist.                      *)

NoPath == "None"

FallbackPaths ==
    << "/usr/games/stockfish", "/usr/bin/stockfish",
       "/usr/local/bin/stockfish", "/opt/homebrew/bin/stockfish" >>

\* ENGINE_PATH: unset (the default of EngineConfig), empty, or a path of its own
ConfiguredPaths == {"/opt/homebrew/bin/stockfish", "", "/srv/engines/stockfish"}

EnginePaths ==
    {FallbackPaths[i] : i \in DOMAIN FallbackPaths}
      \cup {"/srv/engines/stockfish", "/home/user/bin/stockfish"}

Candidates(engine_path, which) == <<engine_path, which>> \o FallbackPaths

RECURSIVE FirstExisting(_, _)
\* for p in candidates: if p and os.path.exists(p): return p
FirstExisting(candidates, exists) ==
    IF candidates = <<>> THEN NoPath
    ELSE IF Head(candidates) \notin {"", NoPath} /\ Head(candidates) \in exists
         THEN Head(candidates)
         ELSE FirstExisting(Tail(candidates), exists)

\* the lookup in PATH tried before the configured path
GetEnginePathWhichFirst(engine_path, which, exists) ==
    FirstExisting(<<which, engine_path>> \o FallbackPaths, exists)

get_engine_path(engine_path, which, exists) ==
    FirstExisting(Candidates(engine_path, which), exists)

GetEnginePath ==
    /\ last = NoCall
    /\ LET p == get_engine_path(tx.engine_path, tx.which, tx.exists)
       IN  last' = [ op |-> "get_engine_path", path |-> p,
                     raised |-> IF p = NoPath THEN "FileNotFoundError" ELSE "none" ]
    /\ UNCHANGED <<thr, evals, highlights, tasks, responses, pc, runs, tx, varied>>

\* shutil.which answers None or a file that exists
InitEnginePath ==
    /\ thr = HighlightThresholds
    /\ evals = {}
    /\ highlights = {}
    /\ tasks = {}
    /\ responses = <<>>
    /\ pc = "idle"
    /\ runs = 0
    /\ varied = 0
    /\ last = NoCall
    /\ \E exists \in SUBSET EnginePaths :
         \E engine_path \in ConfiguredPaths :
            \E which \in exists \cup {NoPath} :
               tx = [engine_path |-> engine_path, which |-> which, exists |-> exists]

NextEnginePath == GetEnginePath

SpecEnginePath == InitEnginePath /\ [][NextEnginePath]_vars

-----------------------------------------------------------------------------
(* api.analyse_pending: the pipeline over the games that wait for analysis. *)
(* Here tx holds the locals of the handler (ids, the rest of the loop,      *)
(* processed, errors), with ran, what each pipeline call of this request    *)
(* did, and completed, the games whose pipeline has ever returned without   *)
(* an exception; last is the response.  The engine answers as QuietResult:  *)
(* the fast pass stores its rows, no delta reaches a threshold, and the     *)
(* later steps find nothing to write.                                       *)

MaxPendingCalls == 3

PendingGames == {1, 2, 3}

\* order by coalesce(g.played_at, g.imported_at) desc, g.id desc
NewestFirst == <<3, 2, 1>>

\* Games 1 and 2 hold the main line of PgnMoves.  Game 3 was imported from a
\* PGN of headers and a result only (an aborted game): import_pgn inserts the
\* game, and its loop over the main line inserts no move.
GameMoves(g) ==
    IF g = 3 THEN {}
    ELSE { [m EXCEPT !.game_id = g, !.id = (g - 1) * LastPly + m.ply] : m \in Moves }

RECURSIVE FastPassRows(_, _, _)
\* analyse_game_fast over the moves of game g from ply p on
FastPassRows(es, g, p) ==
    IF ~ \E m \in GameMoves(g) : m.ply = p THEN es
    ELSE LET m == CHOOSE x \in GameMoves(g) : x.ply = p
             before == InsertEvaluation(es, EvalRow(m, QuietResult(m.fen_before)))
             after == InsertEvaluation(before, EvalRow(m, QuietResult(m.fen_after)))
         IN  FastPassRows(after, g, p + 1)

\* not exists (select 1 from engine_evaluations e where e.game_id = g.id)
IsPending(g) == ~ \E e \in evals : e.game_id = g

RECURSIVE PendingIds(_, _)
\* the ids the query returns: the pending games, newest first, at most lim
PendingIds(games, lim) ==
    IF games = <<>> \/ lim = 0 THEN <<>>
    ELSE IF IsPending(Head(games))
         THEN <<Head(games)>> \o PendingIds(Tail(games), lim - 1)
         ELSE PendingIds(Tail(games), lim)

\* limit: the bot asks for one game per call, the API's default takes five
Limits == {1, 5}

\* the request arrives: the query runs, the loop begins
AnalysePending(limit) ==
    /\ pc = "idle"
    /\ runs < MaxPendingCalls
    /\ runs' = runs + 1
    /\ pc' = "pending_loop"
    /\ tx' = [ ids |-> PendingIds(NewestFirst, limit),
               todo |-> PendingIds(NewestFirst, limit),
               processed |-> 0, errors |-> <<>>, ran |-> <<>>,
               completed |-> tx.completed ]
    /\ UNCHANGED <<thr, evals, highlights, tasks, responses, varied, last>>

\* analyse_game_pipeline(gid) returns: processed += 1
PendingPipelineReturns ==
    /\ pc = "pending_loop"
    /\ tx.todo # <<>>
    /\ LET gid == Head(tx.todo)
       IN  /\ evals' = FastPassRows(evals, gid, 1)
           /\ tx' = [tx EXCEPT !.todo = Tail(@),
                               !.processed = @ + 1,
                               !.ran = Append(@, [game_id |-> gid, outcome |-> "ok"]),
                               !.completed = @ \cup {gid}]
    /\ UNCHANGED <<thr, highlights, tasks, responses, pc, runs, varied, last>>

\* the loop goes on after an exception
PendingFailureStops(step) ==
    /\ pc = "pending_loop"
    /\ tx.todo # <<>>
    /\ LET gid == Head(tx.todo)
       IN  /\ evals' = IF step = "fast" THEN evals ELSE FastPassRows(evals, gid, 1)
           /\ tx' = [tx EXCEPT !.todo = <<>>,
                               !.errors = Append(@, [game_id |-> gid, error |-> step]),
                               !.ran = Append(@, [game_id |-> gid, outcome |-> step])]
    /\ UNCHANGED <<thr, highlights, tasks, responses, pc, runs, varied, last>>

\* analyse_game_pipeline(gid) raises in one of its engine passes, the fast
\* pass rolled back or committed: except Exception appends to errors
PendingPipelineRaises(step) ==
    /\ pc = "pending_loop"
    /\ tx.todo # <<>>
    /\ LET gid == Head(tx.todo)
       IN  /\ evals' = IF step = "fast" THEN evals ELSE FastPassRows(evals, gid, 1)
           /\ tx' = [tx EXCEPT !.todo = Tail(@),
                               !.errors = Append(@, [game_id |-> gid, error |-> step]),
                               !.ran = Append(@, [game_id |-> gid, outcome |-> step])]
    /\ UNCHANGED <<thr, highlights, tasks, responses, pc, runs, varied, last>>

\* return {"selected": len(ids), "processed": processed, "errors": errors}
PendingResponse ==
    /\ pc = "pending_loop"
    /\ tx.todo = <<>>
    /\ pc' = "idle"
    /\ last' = [ op |-> "analyse_pending", selected |-> Len(tx.ids),
                 processed |-> tx.processed, errors |-> tx.errors ]
    /\ UNCHANGED <<thr, evals, highlights, tasks, responses, runs, tx, varied>>

InitPending ==
    /\ thr = HighlightThresholds
    /\ evals = {}
    /\ highlights = {}
    /\ tasks = {}
    /\ responses = <<>>
    /\ pc = "idle"
    /\ runs = 0
    /\ tx = [ ids |-> <<>>, todo |-> <<>>, processed |-> 0, errors |-> <<>>,
              ran |-> <<>>, completed |-> {} ]
    /\ varied = 0
    /\ last = NoCall

NextPending ==
    \/ \E limit \in Limits : AnalysePending(limit)
    \/ PendingPipelineReturns
    \/ \E step \in {"fast", "deep"} : PendingPipelineRaises(step)
    \/ PendingResponse

SpecPending == InitPending /\ [][NextPending]_vars

-----------------------------------------------------------------------------
(* C1: with the default thresholds the bands are checked most negative     *)
(* first: delta <= -1200 is a blunder, else delta <= -800 a mistake, else  *)
(* delta <= -400 an inaccuracy, else delta >= 900 brilliant, else          *)
(* delta >= 600 great, else no category; under any configuration a delta   *)
(* at or below blunder_cp is a blunder even where the bands overlap.       *)
C1_ClassifyBands ==
    last.op = "classify" =>
        LET d == last.delta
            c == last.cat
        IN  /\ d <= thr.blunder_cp => c = "blunder"
            /\ thr = HighlightThresholds =>
                /\ d <= -1200 => c = "blunder"
                /\ (-1200 < d /\ d <= -800) => c = "mistake"
                /\ (-800 < d /\ d <= -400) => c = "inaccuracy"
                /\ (-400 < d /\ d < 600) => c = NoCategory
                /\ (600 <= d /\ d < 900) => c = "great"
                /\ 900 <= d => c = "brilliant"
                /\ d = -1300 => c = "blunder"
                /\ d = -900 => c = "mistake"
                /\ d = -500 => c = "inaccuracy"
                /\ d = 0 => c = NoCategory
                /\ d = 700 => c = "great"
                /\ d = 1000 => c = "brilliant"

\* a delta inside the overlap of the blunder and mistake bands was classified
C1_Witness ==
    /\ last.op = "classify"
    /\ thr = OverlappingThresholds
    /\ last.delta = -900
    /\ last.cat = "blunder"

-----------------------------------------------------------------------------
(* C2: after any sequence of task-creation requests at most one task exists *)
(* per (user, game, position_ply, category); no request removes or changes  *)
(* a task; create_task_from_highlight on a solvable highlight answers 200,  *)
(* inserts exactly when the identity is free and otherwise returns the      *)
(* existing task with created = false; the same call made twice in a row    *)
(* returns created = false the second time with the same task_id.           *)
C2_TaskIdentityUnique ==
    [][ /\ \A t1, t2 \in tasks' : SameTaskIdentity(t1, t2) => t1 = t2
        /\ tasks \subseteq tasks'
        /\ ( /\ last'.op = "create_task_from_highlight"
             /\ CreateTaskFromHighlight(last'.highlight_id, last'.user_id)
             /\ \E h \in highlights : h.id = last'.highlight_id /\ h.ply > 1 )
             => LET hid == last'.highlight_id
                    uid == last'.user_id
                    h == CHOOSE x \in highlights : x.id = hid
                    taken == \E t \in tasks : /\ t.user_id = uid
                                              /\ t.game_id = h.game_id
                                              /\ t.position_ply = h.ply - 1
                                              /\ t.category_id = "blunder"
                IN  /\ last'.http = 200
                    /\ last'.created <=> ~taken
                    /\ taken => tasks' = tasks
                    /\ ~taken => Cardinality(tasks') = Cardinality(tasks) + 1
                    /\ \E t \in tasks' : /\ t.id = last'.task_id
                                         /\ t.user_id = uid
                                         /\ t.game_id = h.game_id
                                         /\ t.position_ply = h.ply - 1
        /\ ( /\ last.op = "create_task_from_highlight"
             /\ last.http = 200
             /\ CreateTaskFromHighlight(last.highlight_id, last.user_id) )
           => /\ ~last'.created
              /\ last'.task_id = last.task_id
              /\ tasks' = tasks
      ]_vars

\* user 2 asked twice for a task from the same highlight: the second answer
\* names the task the first one created
C2_Witness ==
    /\ last.op = "create_task_from_highlight"
    /\ last.http = 200
    /\ ~last.created
    /\ last.user_id = 2
    /\ \E t \in tasks : t.id = last.task_id /\ t.user_id = 2
    /\ \E t \in tasks : t.user_id = 1

-----------------------------------------------------------------------------
(* C3: in every reachable state there is at most one highlight row per      *)
(* (move, category), also after annotation has run again on the game.       *)
C3_HighlightUnique ==
    \A h1, h2 \in highlights :
        (h1.move_id = h2.move_id /\ h1.category_id = h2.category_id) => h1 = h2

\* the second pipeline call has annotated: a highlight refined by the first
\* call is still the only row of its pair, though every order of the
\* evaluations classifies its move into its category again
C3_Witness ==
    /\ runs = 2
    /\ pc = "deep_open"
    /\ \E h \in highlights :
         /\ h.eval_delta_cp = 0
         /\ \A w \in PlyOrders(evals) :
              \E r \in WindowRows(w) :
                 /\ r.move_id = h.move_id
                 /\ _classify_delta(r.delta, thr) = h.category_id

-----------------------------------------------------------------------------
(* C4: no (move, engine, depth) key ever has two evaluation rows; a fast    *)
(* pass keeps every row that existed before it, adds rows only under keys   *)
(* that had none, and when every key it reports exists already it leaves    *)
(* the table exactly as it found it.                                        *)
C4_FastPassIdempotent ==
    [][ /\ \A e1, e2 \in evals' :
             ( /\ e1.move_id = e2.move_id
               /\ e1.engine_name = e2.engine_name
               /\ e1.depth = e2.depth ) => e1 = e2
        /\ (pc = "fast" /\ pc' = "annotate") =>
             /\ tx.evals \subseteq evals'
             /\ \A e \in evals' \ tx.evals :
                  /\ <<e.move_id, e.depth>> \in tx.keys
                  /\ ~ \E x \in tx.evals : x.move_id = e.move_id /\ x.depth = e.depth
             /\ (\A k \in tx.keys :
                   \E x \in tx.evals : <<x.move_id, x.depth>> = k)
                => evals' = tx.evals
      ]_vars

\* the second fast pass has evaluated every position under keys the first
\* pass had filled, and the table is as it was
C4_Witness ==
    /\ runs = 2
    /\ pc = "fast"
    /\ tx.todo = <<>>
    /\ Cardinality(tx.keys) >= 2
    /\ \A k \in tx.keys : \E x \in tx.evals : <<x.move_id, x.depth>> = k
    /\ evals = tx.evals

-----------------------------------------------------------------------------
(* C5: no step of the deep pass changes the category, the move, the ply or  *)
(* the id of a highlight, or adds or removes a highlight; the pass writes   *)
(* eval_before_cp, eval_after_cp and eval_delta_cp alone.                   *)
C5_DeepKeepsCategory ==
    [][ pc = "deep" =>
          /\ {h.id : h \in highlights'} = {h.id : h \in highlights}
          /\ Cardinality(highlights') = Cardinality(highlights)
          /\ \A h \in highlights :
               \E g \in highlights' :
                  /\ g.id = h.id
                  /\ g.category_id = h.category_id
                  /\ g.move_id = h.move_id
                  /\ g.game_id = h.game_id
                  /\ g.ply = h.ply
      ]_vars

\* the deep pass is over and a highlight carries a refined delta that lies in
\* the band of another category
C5_Witness ==
    /\ pc = "tasks"
    /\ \E h \in highlights :
         _classify_delta(h.eval_delta_cp, thr) \notin {h.category_id, NoCategory}

-----------------------------------------------------------------------------
(* C6: create_tasks_from_blunders keeps every task there was, and every     *)
(* task it adds comes from a blunder highlight at a ply above 1 whose move  *)
(* has a fen_before: position_ply is the highlight's ply less one and fen   *)
(* is the fen_before of the move at the highlight's ply.                    *)
C6_BlunderTasks ==
    [][ (pc = "tasks" /\ pc' = "idle") =>
          /\ tasks \subseteq tasks'
          /\ \A t \in tasks' \ tasks :
               /\ t.user_id = 1
               /\ t.position_ply >= 1
               /\ \E h \in highlights :
                    /\ h.id = t.source_highlight_id
                    /\ h.category_id = "blunder"
                    /\ h.ply > 1
                    /\ MoveById(h.move_id).fen_before # NullFen
                    /\ t.move_id = h.move_id
                    /\ t.game_id = h.game_id
                    /\ t.position_ply = h.ply - 1
                    /\ t.fen = MoveAt(h.ply).fen_before
      ]_vars

\* a pipeline call has ended with blunders flagged at ply 1 and at ply 2:
\* the second has its task, the first has none
C6_Witness ==
    /\ pc = "idle"
    /\ last = PipelineCall("ok", "tasks", "terminated")
    /\ \E h \in highlights :
         /\ h.category_id = "blunder"
         /\ h.ply = 2
         /\ \E t \in tasks : t.source_highlight_id = h.id /\ t.user_id = 1
    /\ \E h \in highlights :
         /\ h.category_id = "blunder"
         /\ h.ply = 1
         /\ ~ \E t \in tasks : t.source_highlight_id = h.id

-----------------------------------------------------------------------------
(* C7: a verification that completes has computed delta as the score of     *)
(* the engine's best line in the task position less the score after the     *)
(* proposed move, and is_correct is true exactly when the proposed move is  *)
(* the engine's best move or delta <= near_best_tolerance_cp, which is 10;  *)
(* the engine's best move is always correct; the stored row says the same.  *)
C7_CorrectnessRule ==
    (last.op = "verify_task_answer" /\ last.http = 200) =>
        /\ thr.near_best_tolerance_cp = 10
        /\ last.score_cp_delta = last.engine_best_cp - last.engine_after_cp
        /\ last.is_correct <=>
             ( \/ last.move_uci = last.engine_best_move_uci
               \/ last.score_cp_delta <= 10 )
        /\ last.move_uci = last.engine_best_move_uci => last.is_correct
        /\ responses[last.response_id].is_correct = last.is_correct
        /\ responses[last.response_id].score_cp_delta = last.score_cp_delta

\* a move that is not the engine's first choice, within the tolerance, was
\* accepted, after a move outside the tolerance had been rejected
C7_Witness ==
    /\ last.op = "verify_task_answer"
    /\ last.http = 200
    /\ last.move_uci # last.engine_best_move_uci
    /\ last.score_cp_delta <= 10
    /\ last.is_correct
    /\ \E i \in 1 .. Len(responses) :
         ~responses[i].is_correct /\ responses[i].score_cp_delta > 10

-----------------------------------------------------------------------------
(* C8: every verification that completes for an existing task appends       *)
(* exactly one response row, which carries the task, the user, the proposed *)
(* move, is_correct, delta, the engine's after-score and best move; the     *)
(* rows before it stay as they were; the task ends with status 'answered'   *)
(* and no other task changes.                                               *)
C8_ResponseAppended ==
    [][ \A tid \in TaskIds : \A move \in ProposedMoves : \A uid \in Users :
          ( /\ last'.op = "verify_task_answer"
            /\ last'.http = 200
            /\ VerifyTaskAnswer(tid, move, uid) )
          => /\ Len(responses') = Len(responses) + 1
             /\ SubSeq(responses', 1, Len(responses)) = responses
             /\ LET r == responses'[Len(responses')]
                IN  /\ r.id = last'.response_id
                    /\ r.task_id = tid
                    /\ r.user_id = uid
                    /\ r.proposed_move_uci = move
                    /\ r.is_correct = last'.is_correct
                    /\ r.score_cp_delta = last'.score_cp_delta
                    /\ r.engine_eval_after_cp = last'.engine_after_cp
                    /\ r.engine_best_move_uci = last'.engine_best_move_uci
             /\ \E t \in tasks' : t.id = tid /\ t.status = "answered"
             /\ \A t \in tasks : t.id # tid => t \in tasks'
             /\ Cardinality(tasks') = Cardinality(tasks)
      ]_vars

\* a second answer to the same task was judged wrong: both rows are stored
\* and the task is answered
C8_Witness ==
    /\ last.op = "verify_task_answer"
    /\ last.http = 200
    /\ ~last.is_correct
    /\ Len(responses) = 2
    /\ responses[1].task_id = responses[2].task_id
    /\ responses[1].is_correct
    /\ \E t \in tasks : t.id = last.task_id /\ t.status = "answered"

-----------------------------------------------------------------------------
(* C9: a verification called with a task id that no task carries answers    *)
(* "task not found" with HTTP 404, whether or not the engine is available,  *)
(* writes no response row and changes no task row.                          *)
C9_TaskNotFound ==
    [][ \A tid \in TaskIds : \A move \in ProposedMoves : \A uid \in Users :
          ( /\ VerifyTaskAnswer(tid, move, uid)
            /\ ~ \E t \in tasks : t.id = tid )
          => /\ last'.http = 404
             /\ last'.error = "task not found"
             /\ responses' = responses
             /\ tasks' = tasks
      ]_vars

-----------------------------------------------------------------------------
(* C10: answered, expired and cancelled are terminal: a verification never  *)
(* changes the status of a task that is in one of them, and the only change *)
(* of status it makes is new -> answered on the task it was called for.     *)
C10_TerminalStatus ==
    [][ \A tid \in TaskIds : \A move \in ProposedMoves : \A uid \in Users :
          VerifyTaskAnswer(tid, move, uid)
          => \A t \in tasks : \A u \in tasks' :
               (u.id = t.id /\ u.status # t.status)
               => /\ t.status = "new"
                  /\ u.status = "answered"
                  /\ t.id = tid
      ]_vars

-----------------------------------------------------------------------------
(* C11: when a pipeline call or a verification has ended, normally or by    *)
(* an exception, the engine subprocess it started is not running any more.  *)
C11_EngineReleased ==
    ( \/ last.op = "analyse_game_pipeline" /\ last.outcome # "running"
      \/ last.op = "verify_task_answer" )
    => last.engine # "running"

-----------------------------------------------------------------------------
(* C12: the pipeline moves through fast pass, annotation, deep refinement   *)
(* and task generation in this order, each step writing its own tables      *)
(* only; a step that fails ends the call with the failure, the call goes to *)
(* no later step, and nothing is written until a new call begins.           *)
C12_FixedSequence ==
    [][ /\ pc' # pc =>
             <<pc, pc'>> \in { <<"idle", "fast">>, <<"fast", "annotate">>,
                               <<"annotate", "deep_open">>, <<"deep_open", "deep">>,
                               <<"deep", "tasks">>, <<"tasks", "idle">>,
                               <<"fast", "idle">>, <<"deep_open", "idle">>,
                               <<"deep", "idle">> }
        /\ (pc' = "idle" /\ pc \in {"fast", "deep_open", "deep"}) =>
             /\ last'.outcome = "engine_error"
             /\ last'.step = IF pc = "fast" THEN "fast" ELSE "deep"
             /\ runs' = runs
             /\ tasks' = tasks
        /\ (last'.op = "analyse_game_pipeline" /\ last'.outcome = "engine_error") =>
             pc' = "idle"
        /\ (pc = "tasks" /\ pc' = "idle") => last'.outcome = "ok"
        /\ evals' # evals => pc \in {"fast", "deep"}
        /\ highlights' # highlights => pc \in {"annotate", "deep"}
        /\ tasks' # tasks => pc = "tasks"
        /\ (last.op = "analyse_game_pipeline" /\ last.outcome = "engine_error") =>
             /\ evals' = evals
             /\ highlights' = highlights
             /\ tasks' = tasks
             /\ runs' = runs + 1
      ]_vars

\* the deep pass of the first call failed after the fast pass and the
\* annotation had written their rows: no task was generated
C12_Witness ==
    /\ pc = "idle"
    /\ runs = 1
    /\ last = PipelineCall("engine_error", "deep", "terminated")
    /\ evals # {}
    /\ highlights # {}
    /\ tasks = {}

-----------------------------------------------------------------------------
(* C13: when a step fails, the evaluation and highlight rows that were      *)
(* committed when the step began are all there and unchanged afterwards,    *)
(* and of the rows the failing step wrote none is kept; while a step runs,  *)
(* no row committed before it is removed.                                   *)
C13_PartialResultsKept ==
    [][ /\ (pc \in {"fast", "deep"} /\ pc' = "idle") =>
             /\ evals' = tx.evals
             /\ highlights' = tx.highlights
             /\ tasks' = tasks
        /\ (pc = "deep_open" /\ pc' = "idle") =>
             /\ evals' = evals
             /\ highlights' = highlights
             /\ tasks' = tasks
        /\ tx.open =>
             /\ tx.evals \subseteq evals'
             /\ \A h \in tx.highlights : \E g \in highlights' : g.id = h.id
      ]_vars

\* the deep pass of the second call failed: the rows of the first call and
\* of the second call's fast pass and annotation are in the store, the
\* highlights as the first call refined them
C13_Witness ==
    /\ pc = "idle"
    /\ runs = 2
    /\ last = PipelineCall("engine_error", "deep", "terminated")
    /\ Cardinality(evals) >= 3
    /\ \E h \in highlights : _classify_delta(h.eval_delta_cp, thr) # h.category_id

-----------------------------------------------------------------------------
-----------------------------------------------------------------------------
(* C15: no step of the pipeline updates or deletes a committed evaluation   *)
(* row: outside an engine pass no row leaves the table, inside a pass every *)
(* row committed before it stays as it is and an evaluation only adds; the  *)
(* rows the deep pass adds lie under keys that had no row, so every         *)
(* fast-pass row keeps its score_cp, best_move_uci and depth.               *)
C15_EvaluationsAppendOnly ==
    [][ /\ ~tx.open => evals \subseteq evals'
        /\ tx.open => tx.evals \subseteq evals'
        /\ (pc \in {"fast", "deep"} /\ pc' = pc) => evals \subseteq evals'
        /\ (pc = "deep" /\ pc' = "tasks") =>
             \A e \in evals' \ tx.evals :
                ~ \E x \in tx.evals : /\ x.move_id = e.move_id
                                      /\ x.engine_name = e.engine_name
                                      /\ x.depth = e.depth
      ]_vars

\* the deep pass has refined every candidate and added a row at a deeper
\* depth for a move whose fast-pass row is still there
C15_Witness ==
    /\ pc = "deep"
    /\ tx.todo = {}
    /\ tx.evals \subseteq evals
    /\ \E e \in evals \ tx.evals :
         \E x \in tx.evals : x.move_id = e.move_id /\ x.depth < e.depth

-----------------------------------------------------------------------------
(* C16: when the fast pass has run over a game that had no evaluations,     *)
(* every move with both positions has two rows, one evaluated for its       *)
(* fen_before and one for its fen_after.                                    *)
C16_RowPerPositionSide ==
    [][ (pc = "fast" /\ pc' = "annotate" /\ tx.evals = {}) =>
          \A m \in Moves :
             (m.fen_before # NullFen /\ m.fen_after # NullFen) =>
                /\ \E e \in evals' :
                     e.move_id = m.id /\ EvaluatedFen(e) = m.fen_before
                /\ \E e \in evals' :
                     e.move_id = m.id /\ EvaluatedFen(e) = m.fen_after
                /\ Cardinality({e \in evals' : e.move_id = m.id}) = 2
      ]_vars

-----------------------------------------------------------------------------
(* C17: every highlight that annotation inserts carries as eval_before_cp   *)
(* the evaluation of its own move's fen_before and as eval_after_cp the     *)
(* evaluation of its own move's fen_after, both as the mover sees them, and *)
(* eval_delta_cp is the second less the first.                              *)
C17_OwnMoveMoverPerspective ==
    [][ (pc = "annotate" /\ pc' = "deep_open") =>
          \A h \in highlights' \ highlights :
             \E eb, ea \in evals :
                /\ eb.move_id = h.move_id
                /\ ea.move_id = h.move_id
                /\ EvaluatedFen(eb) = MoveById(h.move_id).fen_before
                /\ EvaluatedFen(ea) = MoveById(h.move_id).fen_after
                /\ h.eval_before_cp = MoverScore(eb)
                /\ h.eval_after_cp = MoverScore(ea)
                /\ h.eval_delta_cp = h.eval_after_cp - h.eval_before_cp
      ]_vars

-----------------------------------------------------------------------------
(* C18: when annotation is about to run, its query yields at most one       *)
(* before/after pair per move whatever the order of the rows of equal ply,  *)
(* the pair's after-score is that of the move's deepest evaluation, and     *)
(* every order leads to the same highlights.                                *)
C18_LatestEvaluationOnly ==
    pc = "annotate" =>
        /\ \A w \in PlyOrders(evals) :
             \A r1, r2 \in WindowRows(w) :
                r1.move_id = r2.move_id =>
                   /\ r1 = r2
                   /\ \E e \in evals :
                        /\ e.move_id = r1.move_id
                        /\ e.score_cp = r1.after_cp
                        /\ \A x \in evals : x.move_id = e.move_id => x.depth <= e.depth
        /\ \A w1, w2 \in PlyOrders(evals) :
             \A rows1 \in PlyOrders(WindowRows(w1)) :
                \A rows2 \in PlyOrders(WindowRows(w2)) :
                   AnnotateLoop(highlights, rows1, thr)
                     = AnnotateLoop(highlights, rows2, thr)

-----------------------------------------------------------------------------
(* C19: no move carries highlights of two categories: a run of annotation   *)
(* adds at most one highlight per move, and in every reachable state the    *)
(* highlights of one move have one category.                                *)
C19_OneCategoryPerMove ==
    [][ /\ (pc = "annotate" /\ pc' = "deep_open") =>
             \A h1, h2 \in highlights' \ highlights :
                h1.move_id = h2.move_id => h1 = h2
        /\ \A h1, h2 \in highlights' :
             h1.move_id = h2.move_id => h1.category_id = h2.category_id
      ]_vars

-----------------------------------------------------------------------------
(* C20: the score of every evaluation row is the score as the mover of the  *)
(* row's move sees it, the side recorded in eval_side, for the row of the   *)
(* position before the move and for the row of the position after it.       *)
C20_ScoreFromMoverSide ==
    \A e \in evals :
        /\ e.eval_side = MoveById(e.move_id).side
        /\ SideToMove(EvaluatedFen(e)) = e.eval_side
        /\ MoverScore(e) = e.score_cp

-----------------------------------------------------------------------------
(* C21: a verification that completes has turned the score of the position  *)
(* after the proposed move into the score as the mover of the task position *)
(* sees it before it subtracts: delta is the best score less that score,    *)
(* and delta is not negative when the proposed move is not better than the  *)
(* engine's best move.                                                      *)
C21_AfterScoreReoriented ==
    (last.op = "verify_task_answer" /\ last.http = 200) =>
        LET t == CHOOSE x \in tasks : x.id = last.task_id
            after_mover == ScoreFor(SideToMove(t.fen),
                                    PushUci(t.fen, last.move_uci),
                                    last.engine_after_cp)
        IN  /\ last.score_cp_delta = last.engine_best_cp - after_mover
            /\ after_mover <= last.engine_best_cp => last.score_cp_delta >= 0

-----------------------------------------------------------------------------
(* C22: a classification runs only under thresholds that are ordered        *)
(* blunder_cp <= mistake_cp <= inaccuracy_cp < 0 < great_cp <= brilliant_cp: *)
(* a configuration that breaks the order is refused before any delta is     *)
(* classified.                                                              *)
C22_ThresholdsOrdered ==
    last.op = "classify" =>
        /\ thr.blunder_cp <= thr.mistake_cp
        /\ thr.mistake_cp <= thr.inaccuracy_cp
        /\ thr.inaccuracy_cp < 0
        /\ 0 < thr.great_cp
        /\ thr.great_cp <= thr.brilliant_cp

-----------------------------------------------------------------------------
(* C23: a run of annotate_highlights leaves every highlight row that was    *)
(* there as it was, category and cp fields included, whatever the           *)
(* evaluations have become since the row was written; and a further run     *)
(* over the same evaluations and thresholds adds no row.                    *)
C23_AnnotateIdempotent ==
    [][ (pc = "annotate" /\ pc' = "deep_open") =>
          /\ highlights \subseteq highlights'
          /\ \A w \in PlyOrders(evals') :
                \A rows \in PlyOrders(WindowRows(w)) :
                   AnnotateLoop(highlights', rows, thr) = highlights'
      ]_vars

-----------------------------------------------------------------------------
(* C24: when analyse_pending answers, the pipeline has run for every        *)
(* selected game in turn, also after a failure; errors lists each failed    *)
(* game with its id and error in that order, processed counts the games     *)
(* whose pipeline returned, and selected = processed + number of errors.    *)
C24_PendingFailuresIsolated ==
    (last.op = "analyse_pending" /\ pc = "idle") =>
        /\ Len(tx.ran) = Len(tx.ids)
        /\ \A i \in DOMAIN tx.ids : tx.ran[i].game_id = tx.ids[i]
        /\ last.processed =
             Cardinality({i \in DOMAIN tx.ran : tx.ran[i].outcome = "ok"})
        /\ last.errors =
             SelectSeq([i \in DOMAIN tx.ran |->
                           [game_id |-> tx.ran[i].game_id, error |-> tx.ran[i].outcome]],
                       LAMBDA r : r.error # "ok")
        /\ last.selected = Len(tx.ids)
        /\ last.selected = last.processed + Len(last.errors)

\* a request selected three games: the pipeline of the first failed, the
\* pipelines of the other two ran and returned
C24_Witness ==
    /\ last.op = "analyse_pending"
    /\ pc = "idle"
    /\ last.selected = 3
    /\ last.processed = 2
    /\ Len(last.errors) = 1
    /\ tx.ran[1].outcome # "ok"

-----------------------------------------------------------------------------
-----------------------------------------------------------------------------
(* C26 as stated: a task generated from a highlight at ply 2 has            *)
(* position_ply 1 and shows the board before the move at ply 1; in general  *)
(* a task's fen is the fen_before of the move at its position_ply; the      *)
(* first generation answers created = true, a second created = false with   *)
(* the same task_id.                                                        *)
C26_TaskFenAtPositionPly ==
    [][ (last'.op = "create_task_from_highlight" /\ last'.http = 200 /\ last' # last) =>
          LET h == CHOOSE x \in highlights : x.id = last'.highlight_id
              t == CHOOSE x \in tasks' : x.id = last'.task_id
              had == \E x \in tasks : /\ x.user_id = last'.user_id
                                      /\ x.game_id = h.game_id
                                      /\ x.position_ply = h.ply - 1
          IN  /\ last'.created = ~had
              /\ last'.created => t \in tasks' \ tasks
              /\ ~last'.created => tasks' = tasks
              /\ t.user_id = last'.user_id
              /\ t.position_ply = h.ply - 1
              /\ h.ply = 2 => t.position_ply = 1
              /\ t.fen = MoveAt(t.position_ply).fen_before
      ]_vars

(* C26 amended: the task shows the board before the flagged move itself,    *)
(* the move at position_ply + 1: for a highlight at ply 2, position_ply is  *)
(* 1 and fen is the fen_before of the move at ply 2; the first generation   *)
(* answers created = true, a second created = false with the same task_id.  *)
C26_TaskFenBeforeFlaggedMove ==
    [][ (last'.op = "create_task_from_highlight" /\ last'.http = 200 /\ last' # last) =>
          LET h == CHOOSE x \in highlights : x.id = last'.highlight_id
              t == CHOOSE x \in tasks' : x.id = last'.task_id
              had == \E x \in tasks : /\ x.user_id = last'.user_id
                                      /\ x.game_id = h.game_id
                                      /\ x.position_ply = h.ply - 1
          IN  /\ last'.created = ~had
              /\ last'.created => t \in tasks' \ tasks
              /\ ~last'.created => tasks' = tasks
              /\ t.user_id = last'.user_id
              /\ t.position_ply = h.ply - 1
              /\ h.ply = 2 => t.position_ply = 1
              /\ t.fen = MoveAt(t.position_ply + 1).fen_before
              /\ t.fen = MoveAt(t.position_ply).fen_after
      ]_vars

\* the second request for the highlight at ply 2 was answered with the task
\* the first one created
C26_Witness ==
    /\ last.op = "create_task_from_highlight"
    /\ last.http = 200
    /\ last.created = FALSE
    /\ \E h \in highlights :
         /\ h.id = last.highlight_id
         /\ h.ply = 2
         /\ \E t \in tasks :
              /\ t.id = last.task_id
              /\ t.source_highlight_id = h.id
              /\ t.user_id = last.user_id
              /\ t.position_ply = 1
              /\ t.fen = MoveAt(2).fen_before

-----------------------------------------------------------------------------
(* C27: get_engine_path returns the first candidate that exists, in the     *)
(* order configured path, PATH lookup, fixed locations: a configured path   *)
(* that exists is the answer; when no candidate exists the call raises      *)
(* FileNotFoundError; a path that does not exist is never returned.         *)
C27_OrderedFallback ==
    last.op = "get_engine_path" =>
        LET cands == Candidates(tx.engine_path, tx.which)
            usable(i) == cands[i] \notin {"", NoPath} /\ cands[i] \in tx.exists
        IN  /\ last.raised = "none" =>
                 /\ last.path \in tx.exists
                 /\ \E i \in DOMAIN cands :
                       /\ cands[i] = last.path
                       /\ usable(i)
                       /\ \A j \in 1 .. (i - 1) : ~usable(j)
            /\ tx.engine_path \in tx.exists =>
                 (last.raised = "none" /\ last.path = tx.engine_path)
            /\ (\A i \in DOMAIN cands : ~usable(i)) <=>
                 last.raised = "FileNotFoundError"
            /\ last.raised \in {"none", "FileNotFoundError"}

\* the configured path and a stockfish in PATH both exist: the configured one
\* is returned
C27_Witness ==
    /\ last.op = "get_engine_path"
    /\ tx.engine_path = "/srv/engines/stockfish"
    /\ tx.which = "/home/user/bin/stockfish"
    /\ tx.engine_path \in tx.exists
    /\ last.path = "/srv/engines/stockfish"

-----------------------------------------------------------------------------
(* C28: in every reachable state, inside the deep pass too, every highlight *)
(* row has eval_delta_cp = eval_after_cp - eval_before_cp: annotation       *)
(* inserts it so and every update of the deep pass writes the three fields  *)
(* together.                                                                *)
C28_DeltaIsAfterLessBefore ==
    \A h \in highlights : h.eval_delta_cp = h.eval_after_cp - h.eval_before_cp

\* the deep pass has committed scores that no longer fall into the band of
\* the highlight's category: the row is a refined one
C28_Witness ==
    /\ pc = "tasks"
    /\ \E h \in highlights :
         /\ _classify_delta(h.eval_delta_cp, thr) # h.category_id
         /\ h.eval_before_cp # 0
         /\ h.eval_delta_cp = h.eval_after_cp - h.eval_before_cp

-----------------------------------------------------------------------------
(* C29: a verification for a task that exists never answers "task not       *)
(* found": a proposed move that is not legal in the task position is        *)
(* reported as an error of its own, and the failed call writes no response  *)
(* and leaves the task as it was.                                           *)
C29_IllegalMoveNotTaskNotFound ==
    [][ (last'.op = "verify_task_answer" /\ last' # last) =>
          /\ (\E t \in tasks : t.id = last'.task_id) =>
                last'.error # "task not found"
          /\ last'.http # 200 => (responses' = responses /\ tasks' = tasks)
      ]_vars

-----------------------------------------------------------------------------
(* C30: a game whose pipeline has returned without an exception is not      *)
(* selected by any later analyse_pending request.                           *)
C30_CompletedNeverReselected ==
    [][ (pc = "idle" /\ pc' = "pending_loop") =>
           \A i \in DOMAIN tx'.ids : tx'.ids[i] \notin tx.completed ]_vars

====
